---- MODULE Spec2Model ----
(***************************************************************************)
(* Model of Scripts/ai.py: an invocation of ai_calc(problem_type, body,    *)
(* options).  ai_calc keeps no state between calls.  Texts are sequences   *)
(* of characters, option keys and answer tokens are texts, the completion  *)
(* service and the configuration file are the environment.                 *)
(***************************************************************************)
EXTENDS Integers, Sequences, FiniteSets, TLC

MaxReplyLen == 3
MaxOptions == 2

(* characters of a reply: two key letters, a letter that is no key, the    *)
(* ASCII space, another whitespace character (newline), the ASCII comma    *)
(* and the four characters line 89 turns into a comma                      *)
Chars == {"A", "B", "Z", " ", "nl", ",", "fwcomma", "idcomma", ";", "fwsemi"}
KeyLetters == {"A", "B"}

RECURSIVE SeqsUpTo(_, _)
SeqsUpTo(S, n) ==
  IF n = 0 THEN {<<>>}
  ELSE LET shorter == SeqsUpTo(S, n - 1)
       IN  shorter \cup {Append(s, x) : s \in {t \in shorter : Len(t) = n - 1}, x \in S}

Replies == SeqsUpTo(Chars, MaxReplyLen)

(* an option is a dict; one without the entry 'key' is malformed *)
OptionValues == {[key |-> <<k>>, value |-> "v"] : k \in KeyLetters} \cup {[value |-> "v"]}
OptionLists == SeqsUpTo(OptionValues, MaxOptions)
ProblemTypes == {1, 2, 3, 4}

(* message.content is None; no client object yet *)
NoContent == <<"None">>
NoClient == [created |-> FALSE, api_key |-> ""]
DefaultConfig == [api_key |-> "", base_url |-> "https://api.deepseek.com"]

VARIABLES pc, problem_type, options, options_text, instruction, client,
          requests, response, answer_text, answers, result, printed

vars == <<pc, problem_type, options, options_text, instruction, client,
          requests, response, answer_text, answers, result, printed>>

----
(* str.strip(): drop leading and trailing whitespace *)
IsSpace(c) == c \in {" ", "nl"}

RECURSIVE LStrip(_)
LStrip(s) == IF s # <<>> /\ IsSpace(Head(s)) THEN LStrip(Tail(s)) ELSE s

RECURSIVE RStrip(_)
RStrip(s) ==
  IF s # <<>> /\ IsSpace(s[Len(s)]) THEN RStrip(SubSeq(s, 1, Len(s) - 1)) ELSE s

Strip(s) == RStrip(LStrip(s))

(* str.replace(old, new) for one-character old and new, and new == '' *)
Replace(s, old, new) == [i \in 1..Len(s) |-> IF s[i] = old THEN new ELSE s[i]]

RECURSIVE Remove(_, _)
Remove(s, old) ==
  IF s = <<>> THEN <<>>
  ELSE IF Head(s) = old THEN Remove(Tail(s), old)
  ELSE <<Head(s)>> \o Remove(Tail(s), old)

NormalizeMissingFwsemi(s) ==
  Replace(Replace(Replace(Remove(s, " "), "fwcomma", ","), "idcomma", ","), ";", ",")

Normalize(s) ==
  Replace(Replace(Replace(Replace(Remove(s, " "), "fwcomma", ","),
                          "idcomma", ","), ";", ","), "fwsemi", ",")

(* str.split(',') *)
RECURSIVE Split(_)
Split(s) ==
  IF \A i \in 1..Len(s) : s[i] # "," THEN <<s>>
  ELSE LET i == CHOOSE j \in 1..Len(s) :
                  s[j] = "," /\ \A k \in 1..(j - 1) : s[k] # ","
       IN  <<SubSeq(s, 1, i - 1)>> \o Split(SubSeq(s, i + 1, Len(s)))

SplitAnswer(s) == IF \E i \in 1..Len(s) : s[i] = "," THEN Split(s) ELSE <<s>>

ValidOptions(opts) == [i \in 1..Len(opts) |-> opts[i].key]

InList(x, list) == \E i \in 1..Len(list) : list[i] = x

KeepAll(anss, valid) == anss

RECURSIVE Filter(_, _)
Filter(anss, valid) ==
  IF anss = <<>> THEN <<>>
  ELSE IF InList(Head(anss), valid) THEN <<Head(anss)>> \o Filter(Tail(anss), valid)
  ELSE Filter(Tail(anss), valid)

NeedsBackfillAnyType(type, anss, valid) == Len(anss) < 2 /\ Len(valid) >= 2

NeedsBackfill(type, anss, valid) == type = 2 /\ Len(anss) < 2 /\ Len(valid) >= 2

RemainingAll(valid, anss) == valid

RemainingOptions(valid, anss) ==
  LET RECURSIVE rem(_)
      rem(v) == IF v = <<>> THEN <<>>
                ELSE IF InList(Head(v), anss) THEN rem(Tail(v))
                ELSE <<Head(v)>> \o rem(Tail(v))
  IN  rem(valid)

Instruction(type) ==
  IF type = 1 THEN "single"
  ELSE IF type = 2 THEN "multiple"
  ELSE IF type = 3 THEN "poll"
  ELSE "generic"

Malformed(opts) == \E i \in 1..Len(opts) : "key" \notin DOMAIN opts[i]

(* the state of the configuration file as get_ai_config finds it *)
ConfigFiles == {"unreadable", "no_ai_config", "empty_key", "with_key", "not_a_dict"}

GetAiConfig(file) ==
  IF file \in {"unreadable", "no_ai_config"} THEN DefaultConfig
  ELSE IF file = "empty_key" THEN [api_key |-> "", base_url |-> "url"]
  ELSE [api_key |-> "sk", base_url |-> "url"]

ConfigDiagnostics(file) == IF file = "unreadable" THEN {"config_error"} ELSE {}

(* where control goes when a statement of the try block raises *)
OnExceptionPropagate == "raised"
OnExceptionRetry == "call"
OnException == "handler"

ExceptReturnKey == << <<"A">> >>
ExceptReturn == <<>>

----
Init ==
  /\ pc = "idle"
  /\ problem_type = 1
  /\ options = <<>>
  /\ options_text = <<>>
  /\ instruction = "none"
  /\ client = NoClient
  /\ requests = 0
  /\ response = NoContent
  /\ answer_text = <<>>
  /\ answers = <<>>
  /\ result = <<>>
  /\ printed = {}

(* the caller calls ai_calc *)
Invoke ==
  /\ pc = "idle"
  /\ \E t \in ProblemTypes, opts \in OptionLists :
       /\ problem_type' = t
       /\ options' = opts
  /\ pc' = "render"
  /\ options_text' = <<>>
  /\ instruction' = "none"
  /\ client' = NoClient
  /\ requests' = 0
  /\ response' = NoContent
  /\ answer_text' = <<>>
  /\ answers' = <<>>
  /\ result' = <<>>
  /\ printed' = {}

(* lines 44-67: the options text, the instruction and the prompt, outside try *)
Render ==
  /\ pc = "render"
  /\ IF Malformed(options)
     THEN /\ pc' = "raised"
          /\ UNCHANGED <<options_text, instruction>>
     ELSE /\ options_text' = ValidOptions(options)
          /\ instruction' = Instruction(problem_type)
          /\ pc' = "client"
  /\ UNCHANGED <<problem_type, options, client, requests, response,
                 answer_text, answers, result, printed>>

(* line 71: get_openai_client(), which reads the configuration *)
GetOpenaiClient ==
  /\ pc = "client"
  /\ \E file \in ConfigFiles, created \in BOOLEAN :
       IF file = "not_a_dict"
       THEN /\ pc' = OnException
            /\ UNCHANGED <<client, printed>>
       ELSE LET ai_config == GetAiConfig(file)
                diag == ConfigDiagnostics(file) \cup
                        (IF ai_config.api_key = "" THEN {"no_api_key"} ELSE {})
            IN  /\ printed' = printed \cup diag
                /\ IF created
                   THEN /\ client' = [created |-> TRUE, api_key |-> ai_config.api_key]
                        /\ pc' = "call"
                   ELSE /\ pc' = OnException
                        /\ UNCHANGED client
  /\ UNCHANGED <<problem_type, options, options_text, instruction, requests,
                 response, answer_text, answers, result>>

(* lines 74-82: the request to the completion service *)
Call ==
  /\ pc = "call"
  /\ requests' = requests + 1
  /\ \/ /\ pc' = OnException
        /\ UNCHANGED response
     \/ /\ \E r \in Replies \cup {NoContent} : response' = r
        /\ pc' = "parse"
  /\ UNCHANGED <<problem_type, options, options_text, instruction, client,
                 answer_text, answers, result, printed>>

(* lines 85-99: read the reply, normalise, split, filter *)
Parse ==
  /\ pc = "parse"
  /\ IF response = NoContent
     THEN /\ pc' = OnException
          /\ UNCHANGED <<answer_text, answers>>
     ELSE /\ answer_text' = Normalize(Strip(response))
          /\ answers' = Filter(SplitAnswer(answer_text'), ValidOptions(options))
          /\ pc' = "backfill"
  /\ UNCHANGED <<problem_type, options, options_text, instruction, client,
                 requests, response, result, printed>>

(* lines 101-109: the multiple-choice backfill and the return *)
Backfill ==
  /\ pc = "backfill"
  /\ LET valid_options == ValidOptions(options)
         remaining_options == RemainingOptions(valid_options, answers)
     IN  IF NeedsBackfill(problem_type, answers, valid_options)
            /\ remaining_options # <<>>
         THEN \E i \in 1..Len(remaining_options) :
                answers' = Append(answers, remaining_options[i])
         ELSE answers' = answers
  /\ result' = answers'
  /\ pc' = "done"
  /\ UNCHANGED <<problem_type, options, options_text, instruction, client,
                 requests, response, answer_text, printed>>

(* lines 111-114: the except clause *)
Handler ==
  /\ pc = "handler"
  /\ printed' = printed \cup {"call_error"}
  /\ result' = ExceptReturn
  /\ pc' = "done"
  /\ UNCHANGED <<problem_type, options, options_text, instruction, client,
                 requests, response, answer_text, answers>>

Next ==
  \/ Invoke
  \/ Render
  \/ GetOpenaiClient
  \/ Call
  \/ Parse
  \/ Backfill
  \/ Handler

Spec == Init /\ [][Next]_vars
----
(* vocabulary of the properties *)
Returned == pc = "done"
Replied == response # NoContent
KeySet(opts) == {opts[i].key : i \in 1..Len(opts)}
UniqueKeys(opts) == \A i, j \in 1..Len(opts) : i # j => opts[i].key # opts[j].key
NoDuplicates(list) == \A i, j \in 1..Len(list) : i # j => list[i] # list[j]
KeyA == <<"A">>
KeyB == <<"B">>
OptionA == [key |-> KeyA, value |-> "v"]
OptionB == [key |-> KeyB, value |-> "v"]

(* the tokens of a reply, stated from the positions of its characters:     *)
(* the reply between its first and last non-whitespace character, without  *)
(* its spaces, every separator read as a comma, cut at the commas          *)
Separators == {",", "fwcomma", "idcomma", ";", "fwsemi"}
Inner(r) ==
  LET solid == {i \in 1..Len(r) : r[i] \notin {" ", "nl"}}
  IN  IF solid = {} THEN <<>>
      ELSE SubSeq(r, CHOOSE i \in solid : \A j \in solid : i <= j,
                     CHOOSE i \in solid : \A j \in solid : i >= j)
Unified(r) ==
  LET kept == SelectSeq(Inner(r), LAMBDA c : c # " ")
  IN  [i \in 1..Len(kept) |-> IF kept[i] \in Separators THEN "," ELSE kept[i]]
TokensOf(r) ==
  LET u == Unified(r)
      cuts == {0, Len(u) + 1} \cup {i \in 1..Len(u) : u[i] = ","}
      Cut(k) == CHOOSE c \in cuts : Cardinality({d \in cuts : d < c}) = k - 1
  IN  [k \in 1..(Cardinality(cuts) - 1) |-> SubSeq(u, Cut(k) + 1, Cut(k + 1) - 1)]
ValidTokensOf(r, opts) == SelectSeq(TokensOf(r), LAMBDA t : t \in KeySet(opts))

(* C1: every key of the returned list is the key of one of the question's  *)
(* options, the key added by the backfill included.                        *)
C1_KeysSubset ==
  Returned => \A i \in 1..Len(result) : result[i] \in KeySet(options)

C1_Witness ==
  /\ Returned /\ Replied /\ problem_type = 2
  /\ response = <<"Z">> /\ Len(options) = 2 /\ Len(result) = 1

(* C2: for a multiple-choice question whose options hold at least two      *)
(* keys, the list returned for a reply has at least two keys.              *)
C2_AtLeastTwo ==
  (Returned /\ Replied /\ problem_type = 2 /\ Cardinality(KeySet(options)) >= 2)
    => Len(result) >= 2

(* C3: for a single-choice or poll question the returned list has at most  *)
(* one key.                                                                *)
C3_AtMostOne ==
  (Returned /\ problem_type \in {1, 3}) => Len(result) <= 1

(* C4: with unique option keys the returned list holds no key twice.       *)
C4_NoDuplicates ==
  (Returned /\ UniqueKeys(options)) => NoDuplicates(result)

(* C5 as claimed: the invocation never ends by raising. *)
C5_NeverRaises == pc # "raised"

(* C5 amended: the invocation ends by raising only from the rendering of   *)
(* the options, before a client exists or a request is made; a failure of  *)
(* any later step ends in a returned list.                                 *)
C5_RaisesOnlyRendering ==
  pc = "raised" => (Malformed(options) /\ ~client.created /\ requests = 0)

C5_Witness ==
  /\ Returned /\ "call_error" \in printed /\ requests = 1
  /\ ~Malformed(options) /\ result = <<>>

(* C6: when the request raises or the reply holds no text, the empty list  *)
(* is returned, whatever the type and the options; no backfill.            *)
C6_FailureReturnsEmpty ==
  (Returned /\ requests = 1 /\ ~Replied) => result = <<>>

C6_Witness ==
  /\ Returned /\ requests = 1 /\ ~Replied
  /\ problem_type = 2 /\ options = <<OptionA, OptionB>>

(* C7 as claimed: a reply with no token that is an option key gives the    *)
(* empty list, for every type.                                             *)
C7_NoValidTokenEmpty ==
  (Returned /\ Replied /\ ValidTokensOf(response, options) = <<>>)
    => result = <<>>

(* C7 amended: a reply with no token that is an option key gives the empty *)
(* list, except for a multiple-choice question with at least two options,  *)
(* where the backfill returns exactly one option key.                      *)
C7_NoValidTokenEmptyUnlessBackfill ==
  (Returned /\ Replied /\ ValidTokensOf(response, options) = <<>>)
    => IF problem_type = 2 /\ Len(options) >= 2
       THEN Len(result) = 1 /\ result[1] \in KeySet(options)
       ELSE result = <<>>

C7_Witness ==
  /\ Returned /\ Replied /\ response = <<"Z">>
  /\ problem_type = 1 /\ options = <<OptionA, OptionB>> /\ result = <<>>

(* C8: when the call succeeds and the backfill does not apply, the         *)
(* returned list is the sequence of the reply's tokens that are option     *)
(* keys, in the order of the reply; reply "A" with options A/B and type 1  *)
(* gives [A], reply "B,A" with options A/B and type 2 gives [B, A].        *)
C8_ValidTokensInOrder ==
  /\ (Returned /\ Replied
        /\ ~(problem_type = 2 /\ Len(ValidTokensOf(response, options)) < 2
               /\ Len(options) >= 2))
       => result = ValidTokensOf(response, options)
  /\ (Returned /\ response = <<"A">> /\ problem_type = 1
        /\ options = <<OptionA, OptionB>>)
       => result = <<KeyA>>
  /\ (Returned /\ response = <<"B", ",", "A">> /\ problem_type = 2
        /\ options = <<OptionA, OptionB>>)
       => result = <<KeyB, KeyA>>

C8_Witness ==
  /\ Returned /\ response = <<"B", "fwsemi", "A">> /\ problem_type = 2
  /\ options = <<OptionA, OptionB>> /\ result = <<KeyB, KeyA>>

(* C9: the backfill step changes the answer only for a multiple-choice     *)
(* question with fewer than two kept keys and at least two options; it     *)
(* then appends one option key that is not in the list and keeps the list  *)
(* before it; for every other type the list is returned unchanged.         *)
BackfillFrame ==
  /\ answers' # answers =>
       /\ problem_type = 2 /\ Len(answers) < 2 /\ Len(options) >= 2
       /\ \E k \in KeySet(options) :
            /\ ~InList(k, answers)
            /\ answers' = Append(answers, k)
  /\ problem_type # 2 => answers' = answers
  /\ result' = answers'

C9_BackfillFrame == [][pc = "backfill" => BackfillFrame]_vars

C9_Witness ==
  /\ Returned /\ response = <<"A">> /\ problem_type = 2
  /\ options = <<OptionA, OptionB>> /\ result = <<KeyA, KeyB>>

(* C10: an invocation issues at most one request, and exactly one once the *)
(* client was created; no retry after a failure, and the request is made   *)
(* with an empty api_key or an unreadable configuration too.               *)
C10_OneRequest ==
  /\ requests <= 1
  /\ (Returned /\ client.created) => requests = 1
  /\ (pc \in {"parse", "backfill"}) => requests = 1

C10_Witness ==
  /\ Returned /\ client.created /\ client.api_key = ""
  /\ "config_error" \in printed /\ "call_error" \in printed /\ requests = 1
====
